---- MODULE Spec2Model ----
(***************************************************************************)
(* Model of ridge's Matrix<T> (src/src/matrix.rs) with T = usize.          *)
(* A cell Option<T> is a sequence: None is <<>>, Some(v) is <<v>>.         *)
(* Vec indices are 0-based in the source; Vec element i is seq[i + 1].     *)
(* A call ends in one of three ways: "Ok", "Err" (a BoundError value) or   *)
(* "Panic" (an unwrap() on None / Err, which terminates the program).      *)
(***************************************************************************)
EXTENDS Integers, Sequences, FiniteSets, TLC

\* ---- bounds of the model ----
MaxDim == 2
MaxIdx == 3
MaxVal == 1
MaxCalls == 2

Dims == 0..MaxDim
Idx == 0..MaxIdx
Values == 0..MaxVal

VARIABLES content, x_dim, y_dim, ctor, last, touched, ncalls

vars == <<content, x_dim, y_dim, ctor, last, touched, ncalls>>

\* ---- Option<T> ----
None == <<>>
Some(v) == <<v>>
TDefault == 0
Cells == {None} \cup {Some(v) : v \in Values}

\* ---- BoundError::Exceed(x, y) ----
Exceed(x, y) == <<x, y>>

\* ---- outcomes of a call ----
RetOk(c, o) == [res |-> "Ok", err |-> <<>>, out |-> o, content |-> c]
RetErr(c, e) == [res |-> "Err", err |-> e, out |-> <<>>, content |-> c]
RetPanic(c) == [res |-> "Panic", err |-> <<>>, out |-> <<>>, content |-> c]

\* Vec::get / Vec::get_mut: is index i present in vec
VecHas(vec, i) == i < Len(vec)

\* ---- constructors ----
new_swapped(xd, yd) == [o \in 1..xd |-> [i \in 1..yd |-> None]]
new(xd, yd) == [o \in 1..yd |-> [i \in 1..xd |-> None]]

default(xd, yd) == [o \in 1..yd |-> [i \in 1..xd |-> Some(TDefault)]]

\* ---- Matrix::add ----
add_fill(c, xd, yd, x, y, value) ==
    IF x > xd \/ y > yd THEN RetErr(c, Exceed(x, y))
    ELSE IF ~VecHas(c, x) THEN RetPanic(c)
    ELSE IF ~VecHas(c[x + 1], y) THEN RetPanic(c)
    ELSE RetOk([c EXCEPT ![x + 1] = [j \in 1..Len(c[x + 1]) |-> value]], <<>>)
add_strict(c, xd, yd, x, y, value) ==
    IF x >= xd \/ y >= yd THEN RetErr(c, Exceed(x, y))
    ELSE IF ~VecHas(c, x) THEN RetPanic(c)
    ELSE IF ~VecHas(c[x + 1], y) THEN RetPanic(c)
    ELSE RetOk([c EXCEPT ![x + 1][y + 1] = value], <<>>)
add(c, xd, yd, x, y, value) ==
    IF x > xd \/ y > yd THEN RetErr(c, Exceed(x, y))
    ELSE IF ~VecHas(c, x) THEN RetPanic(c)
    ELSE IF ~VecHas(c[x + 1], y) THEN RetPanic(c)
    ELSE RetOk([c EXCEPT ![x + 1][y + 1] = value], <<>>)

\* ---- Matrix::remove: Ok(self.add(x, y, None)?) ----
remove(c, xd, yd, x, y) ==
    LET r == add(c, xd, yd, x, y, None)
    IN  IF r.res = "Ok" THEN RetOk(r.content, <<>>) ELSE r

\* ---- Matrix::get ----
get(c, xd, yd, x, y) ==
    IF x > xd \/ y > yd THEN RetErr(c, Exceed(x, y))
    ELSE IF ~VecHas(c, x) THEN RetPanic(c)
    ELSE IF ~VecHas(c[x + 1], y) THEN RetPanic(c)
    ELSE RetOk(c, c[x + 1][y + 1])

\* ---- Matrix::col: (0..y_dim).map(|pos| self.get(pos, col).unwrap()) ----
col(c, xd, yd, cl) ==
    IF cl > yd THEN RetErr(c, Exceed(0, cl))
    ELSE IF \E pos \in 0..(yd - 1) : get(c, xd, yd, pos, cl).res # "Ok"
         THEN RetPanic(c)
         ELSE RetOk(c, [p \in 1..yd |-> get(c, xd, yd, p - 1, cl).out])

\* ---- Matrix::row: (0..x_dim).map(|pos| self.get(row, pos).unwrap()) ----
row(c, xd, yd, rw) ==
    IF rw > xd THEN RetErr(c, Exceed(xd, yd))
    ELSE IF \E pos \in 0..(xd - 1) : get(c, xd, yd, rw, pos).res # "Ok"
         THEN RetPanic(c)
         ELSE RetOk(c, [p \in 1..xd |-> get(c, xd, yd, rw, p - 1).out])

\* ---- derived serde::Serialize / serde::Deserialize through serde_json ----
\* JSON values: null is <<"null">>, a number n is <<"num", n>>.
JNull == <<"null">>
JNum(n) == <<"num", n>>

SerCell(cell) == IF cell = None THEN JNull ELSE JNum(cell[1])
DeCell(j) == IF j = JNull THEN None ELSE Some(j[2])

serialize_lossy(c, xd, yd) ==
    [content |-> [o \in 1..Len(c) |-> [i \in 1..Len(c[o]) |->
                     IF c[o][i] = Some(TDefault) THEN JNull ELSE SerCell(c[o][i])]],
     x_dim |-> JNum(xd), y_dim |-> JNum(yd)]
serialize(c, xd, yd) ==
    [content |-> [o \in 1..Len(c) |-> [i \in 1..Len(c[o]) |-> SerCell(c[o][i])]],
     x_dim |-> JNum(xd), y_dim |-> JNum(yd)]

deserialize(j) ==
    [content |-> [o \in 1..Len(j.content) |->
                     [i \in 1..Len(j.content[o]) |-> DeCell(j.content[o][i])]],
     x_dim |-> j.x_dim[2], y_dim |-> j.y_dim[2]]

\* ---- state machine ----
NoCall == [op |-> "init", x |-> 0, y |-> 0, v |-> None, res |-> "Ok",
           err |-> <<>>, out |-> <<>>]
Call(o, x, y, v, r) == [op |-> o, x |-> x, y |-> y, v |-> v, res |-> r.res,
                        err |-> r.err, out |-> r.out]

\* a panic terminates the program: no call follows it
Running == last.res # "Panic" /\ ncalls < MaxCalls

Init ==
    \E xd \in Dims, yd \in Dims, k \in {"new", "default"} :
        /\ x_dim = xd
        /\ y_dim = yd
        /\ ctor = k
        /\ content = IF k = "new" THEN new(xd, yd) ELSE default(xd, yd)
        /\ last = NoCall
        /\ touched = {}
        /\ ncalls = 0

Add ==
    /\ Running
    /\ \E x \in Idx, y \in Idx, v \in Cells :
         LET r == add(content, x_dim, y_dim, x, y, v)
         IN  /\ content' = r.content
             /\ last' = Call("add", x, y, v, r)
             /\ touched' = IF r.res = "Ok" THEN touched \cup {<<x, y>>} ELSE touched
    /\ ncalls' = ncalls + 1
    /\ UNCHANGED <<x_dim, y_dim, ctor>>

Remove ==
    /\ Running
    /\ \E x \in Idx, y \in Idx :
         LET r == remove(content, x_dim, y_dim, x, y)
         IN  /\ content' = r.content
             /\ last' = Call("remove", x, y, None, r)
             /\ touched' = IF r.res = "Ok" THEN touched \cup {<<x, y>>} ELSE touched
    /\ ncalls' = ncalls + 1
    /\ UNCHANGED <<x_dim, y_dim, ctor>>

Get ==
    /\ Running
    /\ \E x \in Idx, y \in Idx :
         last' = Call("get", x, y, None, get(content, x_dim, y_dim, x, y))
    /\ ncalls' = ncalls + 1
    /\ UNCHANGED <<content, x_dim, y_dim, ctor, touched>>

Row ==
    /\ Running
    /\ \E r \in Idx :
         last' = Call("row", r, 0, None, row(content, x_dim, y_dim, r))
    /\ ncalls' = ncalls + 1
    /\ UNCHANGED <<content, x_dim, y_dim, ctor, touched>>

Col ==
    /\ Running
    /\ \E c \in Idx :
         last' = Call("col", 0, c, None, col(content, x_dim, y_dim, c))
    /\ ncalls' = ncalls + 1
    /\ UNCHANGED <<content, x_dim, y_dim, ctor, touched>>

SerdeRoundTrip ==
    /\ Running
    /\ last' = Call("serde", 0, 0, None,
                    RetOk(content, deserialize(serialize(content, x_dim, y_dim))))
    /\ ncalls' = ncalls + 1
    /\ UNCHANGED <<content, x_dim, y_dim, ctor, touched>>

Next == Add \/ Remove \/ Get \/ Row \/ Col \/ SerdeRoundTrip

Spec == Init /\ [][Next]_vars

TypeOK ==
    /\ x_dim \in Dims
    /\ y_dim \in Dims
    /\ ctor \in {"new", "default"}
    /\ last.res \in {"Ok", "Err", "Panic"}
    /\ \A o \in 1..Len(content) : \A i \in 1..Len(content[o]) : content[o][i] \in Cells

\* ---- helpers for the properties ----
\* (x, y) is inside the declared extents: 0 <= x < x_dim and 0 <= y < y_dim
InBounds(x, y) == x < x_dim /\ y < y_dim
\* content is y_dim vectors of x_dim cells each
Rectangular(c) == Len(c) = y_dim /\ \A o \in 1..Len(c) : Len(c[o]) = x_dim
Positions(c) == {<<o, i>> \in (1..MaxDim) \X (1..MaxDim) : o <= Len(c) /\ i <= Len(c[o])}

\* C1: on a matrix from new, add(x, y, v) at any (x, y) with x < x_dim and
\* y < y_dim returns Ok, and a following get(x, y) returns Ok with v.
C1_WriteReadRoundTrip ==
    (ctor = "new" /\ last.op = "add" /\ InBounds(last.x, last.y)) =>
        /\ last.res = "Ok"
        /\ get(content, x_dim, y_dim, last.x, last.y).res = "Ok"
        /\ get(content, x_dim, y_dim, last.x, last.y).out = last.v

\* C2: add, remove and get at (x, y) with x >= x_dim or y >= y_dim return
\* the error Exceed(x, y), do not terminate the program, and leave content
\* and the dimensions unchanged.
C2_OutOfBoundsRejected ==
    [][(last'.op \in {"add", "remove", "get"}
          /\ (last'.x >= x_dim \/ last'.y >= y_dim)) =>
            /\ last'.res = "Err"
            /\ last'.err = Exceed(last'.x, last'.y)
            /\ content' = content
            /\ x_dim' = x_dim
            /\ y_dim' = y_dim]_vars

\* C3: row(i) with i >= x_dim and col(j) with j >= y_dim return the bounds
\* error, and its coordinate pair contains the supplied index; they never
\* return Ok and never terminate the program.
C3_LineIndexRejected ==
    /\ (last.op = "row" /\ last.x >= x_dim) =>
          (last.res = "Err" /\ \E k \in 1..Len(last.err) : last.err[k] = last.x)
    /\ (last.op = "col" /\ last.y >= y_dim) =>
          (last.res = "Err" /\ \E k \in 1..Len(last.err) : last.err[k] = last.y)

\* C4: row(r) with r < x_dim returns Ok with exactly y_dim views, the j-th
\* being get(r, j); col(c) with c < y_dim returns Ok with exactly x_dim
\* views, the i-th being get(i, c).
C4_LinesCoverGrid ==
    /\ (last.op = "row" /\ last.x < x_dim) =>
          /\ last.res = "Ok"
          /\ Len(last.out) = y_dim
          /\ \A j \in 0..(y_dim - 1) :
                LET g == get(content, x_dim, y_dim, last.x, j)
                IN  g.res = "Ok" /\ last.out[j + 1] = g.out
    /\ (last.op = "col" /\ last.y < y_dim) =>
          /\ last.res = "Ok"
          /\ Len(last.out) = x_dim
          /\ \A i \in 0..(x_dim - 1) :
                LET g == get(content, x_dim, y_dim, i, last.y)
                IN  g.res = "Ok" /\ last.out[i + 1] = g.out

\* C5: after construction and after every call (successful or failing),
\* content has exactly y_dim outer entries of exactly x_dim cells each, and
\* x_dim and y_dim keep the values given at construction.
C5_DimensionInvariant ==
    [][/\ Rectangular(content)
       /\ Rectangular(content')
       /\ x_dim' = x_dim
       /\ y_dim' = y_dim]_vars

C5_Witness ==
    /\ x_dim # y_dim /\ x_dim > 0 /\ y_dim > 0
    /\ ncalls >= 2
    /\ last.op = "add" /\ last.res = "Ok" /\ last.v # None

\* C6: a successful add(x, y, v) or remove(x, y) leaves every cell other
\* than the one it addresses as it was; and on a matrix from new every cell
\* that was never the target of a successful write is still absent.
C6_PointWriteFrame ==
    [][/\ (last'.op \in {"add", "remove"} /\ last'.res = "Ok") =>
              /\ Positions(content') = Positions(content)
              /\ \A p \in Positions(content) :
                    p # <<last'.x + 1, last'.y + 1>> =>
                        content'[p[1]][p[2]] = content[p[1]][p[2]]
       /\ ctor = "new" =>
              \A p \in Positions(content') :
                    <<p[1] - 1, p[2] - 1>> \notin touched' =>
                        content'[p[1]][p[2]] = None]_vars

C6_Witness ==
    /\ ctor = "new"
    /\ last.op = "add" /\ last.res = "Ok" /\ last.v # None
    /\ Cardinality(touched) >= 2
    /\ \E p \in Positions(content) :
          /\ <<p[1] - 1, p[2] - 1>> \notin touched
          /\ p[1] = last.x + 1
    /\ \E p \in Positions(content) :
          /\ p # <<last.x + 1, last.y + 1>>
          /\ content[p[1]][p[2]] # None

\* C7: remove(x, y) has the same result and leaves the same matrix as
\* add(x, y, absent), for every (x, y); and on a matrix from new, add(x, y, v)
\* then remove(x, y) then get(x, y) at a cell with x < x_dim and y < y_dim
\* returns absent.
C7_RemoveIsAddAbsent ==
    [][/\ last'.op = "remove" =>
              LET r == add(content, x_dim, y_dim, last'.x, last'.y, None)
              IN  /\ last'.res = r.res
                  /\ last'.err = r.err
                  /\ content' = r.content
       /\ (ctor = "new" /\ last'.op = "add" /\ InBounds(last'.x, last'.y)) =>
              /\ last'.res = "Ok"
              /\ LET r == remove(content', x_dim, y_dim, last'.x, last'.y)
                     g == get(r.content, x_dim, y_dim, last'.x, last'.y)
                 IN  r.res = "Ok" /\ g.res = "Ok" /\ g.out = None]_vars

\* C8: in a matrix built by the default constructor no cell is ever absent,
\* and remove(x, y) at a cell with x < x_dim and y < y_dim resets it to the
\* type's default value.
C8_DefaultCellPolicy ==
    [][(/\ ctor = "default"
        /\ last'.op = "remove"
        /\ \A p \in Positions(content) : content[p[1]][p[2]] # None) =>
            /\ \A p \in Positions(content') : content'[p[1]][p[2]] # None
            /\ InBounds(last'.x, last'.y) =>
                  /\ last'.res = "Ok"
                  /\ get(content', x_dim, y_dim, last'.x, last'.y).out = Some(TDefault)]_vars

====
